---- MODULE Spec2Model ----
(***************************************************************************)
(* Client-side authentication state machine of Auth-Supabase: the          *)
(* AuthProvider context (reducer, initial session lookup, auth-state       *)
(* subscription, login / completeMFALogin / logout / deleteUserAccount),   *)
(* the cross-tab broadcaster (useSessionSync), the route guards            *)
(* (ProtectedRoute, PublicRoute) and the MFA screens, for same-origin tabs *)
(* that share one credential store.                                        *)
(*                                                                         *)
(* Every `await` of a credential-store or table call is one action: the    *)
(* store answers and the code up to the next `await` runs, together with   *)
(* the re-render it causes (route elements, their effects up to their      *)
(* first `await`, and the <Navigate> elements they return).  Between two   *)
(* such actions any other handler of any tab may run (single-threaded      *)
(* event loop, cooperative scheduling).                                    *)
(***************************************************************************)
EXTENDS Integers, Sequences, FiniteSets, TLC

\* ---------------------------------------------------------------- bounds
\* Number of user-initiated operations (form submits, button clicks) in one
\* run with a single tab open.
MaxOps == 2

\* The same when two tabs are open.
MaxTabOps == 1

\* Number of credential-store / table calls that fail (error result, null
\* data) in one run.
MaxFaults == 1

\* Number of logins with a wrong password that a run may make on top of
\* its operations, where the run allows them.
MaxRetries == 5

\* Number of times the clock moves on in one run of the rate limiter.
MaxTicks == 2

\* Number of failed attempts recorded in a row for one identifier.
MaxFailures == 6

\* ---------------------------------------------------------------- values
Tabs == {"A", "B"}

\* the tabs whose user clicks; the other tabs run their effects and listeners
Actors == {"A"}

NullUser == [id |-> "null", email |-> "null"]
NoSupabaseUser == [id |-> "null", email |-> "null", email_confirmed_at |-> FALSE]
NoSession == [ver |-> 0, aal |-> "none"]

StartPaths == {"/login", "/dashboard"}

\* an operated tab may also be opened on the registration form
ActorStartPaths == StartPaths \cup {"/register"}

\* the locations that App wraps in PublicRoute
PublicPaths == {"/login", "/register"}

\* lengths of a typed backup code, around the accepted minimum
MinBackupCodeLength == 8
BackupCodeLengths == {MinBackupCodeLength - 1, MinBackupCodeLength}

VARIABLES
    listening,          \* the tabs that are open
    account,            \* the account in the credential store: verified TOTP factor, confirmed email
    provSession,        \* the credential store's current session (shared by the tabs), or NoSession
    signIns,            \* sessions the store has issued so far (next session version)
    sessions,           \* rows of the sessions table: {id, user_id}
    rowCount,           \* ids handed out by the sessions table
    activity,           \* rows of the activity_logs table, in insertion order
    auth,               \* per tab: AuthState {user, session, isAuthenticated, isLoading, error}
    currentSessionId,   \* per tab: id of this tab's sessions row, 0 for null
    ui,                 \* per tab: location and the local state of the mounted page / guard
    op,                 \* per tab: the user operation in flight and where it is suspended
    ret,                \* per tab: what the last finished operation returned to its caller
    initPc,             \* per tab: position of the AuthProvider's mount and initial getSession effect
    refreshing,         \* per tab: refreshSession calls awaiting getSession
    evq,                \* per tab: auth-state-change events not yet delivered to the callback
    inbox,              \* per tab: broadcast messages not yet delivered to handleMessage
    opsUsed,            \* user operations started so far
    logoutSent,         \* LOGOUT messages handed to broadcast so far
    logoutDone,         \* logout() / deleteUserAccount() calls that ended successfully so far
    faults,             \* store / table calls that have failed so far
    retries,            \* logins with a wrong password the run may still make on top of its operations
    failedLogins,       \* login() calls that signInWithPassword has rejected in a row
    channelSupported,   \* does the browser define BroadcastChannel
    storageEvents,      \* per tab: storage events not yet delivered to handleStorageChange
    attempts,           \* rateLimiter.attempts: per identifier {count, lockedUntil}
    now,                \* the clock (Date.now()), in milliseconds since the page was loaded
    answer,             \* the latest call on the rate limiter and what it returned
    streak,             \* per identifier: the failures recorded in a row, and when the lockout began
    ticks,              \* times the clock has moved on so far
    allowance           \* per identifier: failures since its last success or lockout expiry

\* the tabs and the stores they share
appVars == <<listening, account, provSession, signIns, sessions, rowCount, activity, auth,
             currentSessionId, ui, op, ret, initPc, refreshing, evq, inbox,
             opsUsed, logoutSent, logoutDone, faults, retries, failedLogins,
             channelSupported, storageEvents>>

\* the rate limiter singleton and its clock
limiterVars == <<attempts, now, answer, streak, ticks, allowance>>

vars == <<appVars, limiterVars>>

\* ------------------------------------------------------ credential store
\* what a call may answer: success, or failure while the run's budget lasts
Outcomes == IF faults < MaxFaults THEN BOOLEAN ELSE {TRUE}
Faults(ok) == IF ok THEN faults ELSE faults + 1

\* the id of the account's user
UserId == "u1"

\* session.user of a store session
SessionUser(s) ==
    IF s = NoSession THEN NoSupabaseUser
    ELSE [id |-> UserId, email |-> "a@x.com", email_confirmed_at |-> account.confirmed]

\* the row createSession(userId) inserts when the table hands out id
SessionRow(id, userId) == [id |-> id, user_id |-> userId]

\* a row that belongs to another user's login on another device
OtherUsersRow == SessionRow(-1, "u2")

\* mfa.listFactors(): data.totp filtered on status = "verified"; a failed
\* call has data = null and the optional chain yields undefined
VerifiedFactor(ok) == ok /\ provSession # NoSession /\ account.hasFactor

\* mfa.getAuthenticatorAssuranceLevel(): data.currentLevel, "none" for null data
CurrentLevel(ok) == IF ok /\ provSession # NoSession THEN provSession.aal ELSE "none"

\* ------------------------------------------------------ AuthContext.tsx
mapSupabaseUser(su) ==
    IF su = NoSupabaseUser \/ su.email = "null" THEN NullUser
    ELSE [id |-> su.id, email |-> su.email]

\* a reducer whose SET_USER leaves isAuthenticated alone
authReducerKeepsFlag(state, action) ==
    CASE action.type = "SET_USER" -> [state EXCEPT !.user = action.payload]
      [] action.type = "SET_SESSION" -> [state EXCEPT !.session = action.payload]
      [] action.type = "SET_LOADING" -> [state EXCEPT !.isLoading = action.payload]
      [] action.type = "SET_ERROR" -> [state EXCEPT !.error = action.payload]
      [] OTHER -> state

authReducer(state, action) ==
    CASE action.type = "SET_USER" ->
            [state EXCEPT !.user = action.payload,
                          !.isAuthenticated = (action.payload # NullUser)]
      [] action.type = "SET_SESSION" -> [state EXCEPT !.session = action.payload]
      [] action.type = "SET_LOADING" -> [state EXCEPT !.isLoading = action.payload]
      [] action.type = "SET_ERROR" -> [state EXCEPT !.error = action.payload]
      [] OTHER -> state

initialState ==
    [user |-> NullUser, session |-> NoSession, isAuthenticated |-> FALSE,
     isLoading |-> FALSE, error |-> "null"]

RECURSIVE Dispatch(_, _)
Dispatch(state, actions) ==
    IF actions = <<>> THEN state
    ELSE Dispatch(authReducer(state, Head(actions)), Tail(actions))

SetUser(u) == [type |-> "SET_USER", payload |-> u]
SetSession(s) == [type |-> "SET_SESSION", payload |-> s]
SetLoading(b) == [type |-> "SET_LOADING", payload |-> b]
SetError(e) == [type |-> "SET_ERROR", payload |-> e]

\* --------------------------------------------------------------- pages
\* Local state of a freshly mounted ProtectedRoute: checking = true,
\* mfaVerified = null, its effect still to run.
FreshGuard == [checking |-> TRUE, mfaVerified |-> "null", pc |-> "none", dirty |-> TRUE]

\* the element of location p with fresh local state
Mounted(p, navs) ==
    [path |-> p, needsMFA |-> FALSE, guard |-> FreshGuard,
     mfaPage |-> IF p = "/mfa-verify" THEN "getSession" ELSE "off",
     navs |-> navs]

\* navigate(p) / <Navigate to=p>: the element of the new location mounts;
\* navigating to the current location keeps the mounted element.  navs lists
\* the targets navigated to while the tab's latest handler ran.
Goto(u, p) ==
    IF u.path = p THEN [u EXCEPT !.navs = Append(@, p)]
    ELSE Mounted(p, Append(u.navs, p))

\* a handler starts to run: nothing navigated to yet
Clear(u) == [u EXCEPT !.navs = <<>>]

\* A SET_USER dispatch hands ProtectedRoute a new `user` value (mapSupabaseUser
\* builds a new object each time), so its effect is due again.
Touch(u, old, new) ==
    IF old = NullUser /\ new = NullUser THEN u
    ELSE [u EXCEPT !.guard.dirty = TRUE]

\* what ProtectedRoute renders from its props and local state
GuardView(st, g) ==
    IF st.isLoading \/ g.checking THEN "placeholder"
    ELSE IF st.user = NullUser THEN "/login"
    ELSE IF g.mfaVerified = "false" THEN "/mfa-verify"
    ELSE "children"

\* ProtectedRoute's useEffect([user]) up to its first await: without a user
\* it only clears `checking`, with one it calls getSession
GuardEffect(st, g) ==
    IF st.user = NullUser THEN [g EXCEPT !.dirty = FALSE, !.checking = FALSE]
    ELSE [g EXCEPT !.dirty = FALSE, !.pc = "getSession"]

\* PublicRoute sends an authenticated tab to /dashboard
PublicView(st) ==
    IF st.isLoading THEN "placeholder"
    ELSE IF st.isAuthenticated THEN "/dashboard"
    ELSE "children"

\* One round of rendering a tab whose AuthState is st: a due guard effect
\* runs, else a <Navigate> that a route element returned takes effect.
RenderStep(st, u) ==
    IF u.path = "/dashboard"
    THEN IF u.guard.dirty /\ u.guard.pc = "none"
         THEN [u EXCEPT !.guard = GuardEffect(st, @)]
         ELSE IF GuardView(st, u.guard) \in {"/login", "/mfa-verify"}
              THEN Goto(u, GuardView(st, u.guard))
              ELSE u
    ELSE IF u.path \in PublicPaths /\ PublicView(st) = "/dashboard"
         THEN Goto(u, "/dashboard")
         ELSE u

\* rendering until nothing changes any more
RECURSIVE Render(_, _)
Render(st, u) ==
    IF RenderStep(st, u) = u THEN u ELSE Render(st, RenderStep(st, u))

\* the tab's page after a handler left AuthState st and page state u
Page(t, st, u) == [ui EXCEPT ![t] = Render(st, u)]

Idle == [pc |-> "idle", arg |-> FALSE, data |-> NoSession, from |-> "none", sid |-> 0]

Call(pc, arg, from) == [pc |-> pc, arg |-> arg, data |-> NoSession, from |-> from, sid |-> 0]

\* supabase.auth.signOut() answered: on success the store drops the session
\* and notifies the subscription with SIGNED_OUT; on error nothing changes.
SignedOut(t, ok) ==
    /\ provSession' = IF ok THEN NoSession ELSE provSession
    /\ evq' = IF ok THEN [evq EXCEPT ![t] = Append(@, [type |-> "SIGNED_OUT", session |-> NoSession])]
              ELSE evq

\* ------------------------------------------------ security.ts: RateLimiter
\* The identifiers the limiter is asked about.
Identifiers == {"a@x.com", "b@x.com"}

maxAttempts == 5

\* milliseconds
lockoutDuration == 15 * 60 * 1000

\* lockedUntil: null
Null == -1

\* attempts.get(identifier) of an identifier without entry; recordAttempt
\* starts from the same record
NoRecord == [count |-> 0, lockedUntil |-> Null]

\* the steps the clock makes, in milliseconds
Ticks == {1, 1000, lockoutDuration}

Max(a, b) == IF a >= b THEN a ELSE b

\* Math.ceil(x / d) for d > 0
Ceil(x, d) == -((-x) \div d)

\* isLocked(identifier) called at time `at`: the value returned
isLockedValue(m, id, at) ==
    IF m[id].lockedUntil = Null THEN FALSE
    ELSE IF at > m[id].lockedUntil THEN FALSE
    ELSE TRUE

\* ... and the map it leaves: an expired lockout deletes the entry
isLockedMap(m, id, at) ==
    IF m[id].lockedUntil # Null /\ at > m[id].lockedUntil
    THEN [m EXCEPT ![id] = NoRecord]
    ELSE m

\* getRemainingTime(identifier) called at time `at`, in seconds
getRemainingTimeValue(m, id, at) ==
    IF m[id].lockedUntil = Null THEN 0
    ELSE Max(0, Ceil(m[id].lockedUntil - at, 1000))

\* a recordAttempt whose success branch zeroes the count and keeps lockedUntil
recordAttemptKeepsLock(m, id, success, at) ==
    IF success THEN [m EXCEPT ![id].count = 0]
    ELSE LET count == m[id].count + 1
         IN [m EXCEPT ![id] =
                [count |-> count,
                 lockedUntil |-> IF count >= maxAttempts THEN at + lockoutDuration
                                 ELSE m[id].lockedUntil]]

\* the map recordAttempt(identifier, success) leaves when called at `at`
recordAttemptMap(m, id, success, at) ==
    IF success THEN [m EXCEPT ![id] = NoRecord]
    ELSE LET count == m[id].count + 1
         IN [m EXCEPT ![id] =
                [count |-> count,
                 lockedUntil |-> IF count >= maxAttempts THEN at + lockoutDuration
                                 ELSE m[id].lockedUntil]]

getAttemptCountValue(m, id) == m[id].count

getRemainingAttemptsValue(m, id) == Max(0, maxAttempts - getAttemptCountValue(m, id))

\* what the latest call on the limiter was and what it returned; for
\* recordAttempt, which returns nothing, its argument and the count it found
Answer(call, id, flag, number) ==
    [call |-> call, id |-> id, flag |-> flag, number |-> number]

NoAnswer == Answer("none", "none", FALSE, 0)

\* the run of failures of an identifier that the latest call belongs to:
\* its length, and the time of failure number maxAttempts (Null before it)
NoStreak == [length |-> 0, lockedAt |-> Null]

\* the lockout stamped for id has expired at time `at`
Expired(m, id, at) == m[id].lockedUntil # Null /\ at > m[id].lockedUntil

\* a lockout that began at streak s.lockedAt is over at time `at`
Elapsed(s, at) == s.lockedAt # Null /\ at > s.lockedAt + lockoutDuration

isLocked(id) ==
    /\ answer' = Answer("isLocked", id, isLockedValue(attempts, id, now), 0)
    /\ attempts' = isLockedMap(attempts, id, now)
    /\ streak' = IF Elapsed(streak[id], now) THEN [streak EXCEPT ![id] = NoStreak]
                 ELSE streak
    /\ allowance' = IF Expired(attempts, id, now) THEN [allowance EXCEPT ![id] = 0]
                    ELSE allowance
    /\ UNCHANGED <<now, ticks>>
    /\ UNCHANGED appVars

getRemainingTime(id) ==
    /\ answer' = Answer("getRemainingTime", id, FALSE,
                        getRemainingTimeValue(attempts, id, now))
    /\ UNCHANGED <<attempts, streak, now, ticks, allowance>>
    /\ UNCHANGED appVars

recordAttempt(id, success) ==
    /\ success \/ streak[id].length < MaxFailures
    /\ answer' = Answer("recordAttempt", id, success, getAttemptCountValue(attempts, id))
    /\ attempts' = recordAttemptMap(attempts, id, success, now)
    /\ streak' = [streak EXCEPT ![id] =
           IF success THEN NoStreak
           ELSE [length |-> @.length + 1,
                 lockedAt |-> IF @.length + 1 = maxAttempts THEN now ELSE @.lockedAt]]
    /\ allowance' = [allowance EXCEPT ![id] =
           IF success THEN 0
           ELSE IF Expired(attempts, id, now) THEN 1
           ELSE @ + 1]
    /\ UNCHANGED <<now, ticks>>
    /\ UNCHANGED appVars

getAttemptCount(id) ==
    /\ answer' = Answer("getAttemptCount", id, FALSE, getAttemptCountValue(attempts, id))
    /\ UNCHANGED <<attempts, streak, now, ticks, allowance>>
    /\ UNCHANGED appVars

getRemainingAttempts(id) ==
    /\ answer' = Answer("getRemainingAttempts", id, FALSE,
                        getRemainingAttemptsValue(attempts, id))
    /\ UNCHANGED <<attempts, streak, now, ticks, allowance>>
    /\ UNCHANGED appVars

\* time passes between two calls
Advance(d) ==
    /\ ticks < MaxTicks
    /\ now' = now + d
    /\ ticks' = ticks + 1
    /\ UNCHANGED <<attempts, streak, answer, allowance>>
    /\ UNCHANGED appVars

NextLimiter ==
    \/ \E id \in Identifiers :
          \/ isLocked(id)
          \/ getRemainingTime(id)
          \/ \E success \in BOOLEAN : recordAttempt(id, success)
          \/ getAttemptCount(id)
          \/ getRemainingAttempts(id)
    \/ \E d \in Ticks : Advance(d)

\* ------------------------------------------------------------- initial
\* The page has been requested and nothing has run yet: every open tab
\* holds its start location, the store holds the account and maybe a
\* session stored by an earlier visit.
Start(open) ==
    /\ listening = open
    /\ account \in [hasFactor : BOOLEAN, confirmed : BOOLEAN]
    /\ provSession \in {NoSession, [ver |-> 1, aal |-> "aal1"], [ver |-> 1, aal |-> "aal2"]}
    /\ provSession # NoSession => account.confirmed
    /\ provSession.aal = "aal2" => account.hasFactor
    /\ signIns = IF provSession = NoSession THEN 0 ELSE 1
    /\ sessions = {OtherUsersRow}
    /\ rowCount = 0
    /\ activity = <<>>
    /\ auth = [t \in Tabs |-> initialState]
    /\ currentSessionId = [t \in Tabs |-> 0]
    /\ \E start \in [Tabs -> ActorStartPaths] :
          /\ \A t \in Tabs \ open : start[t] = "/login"
          /\ \A t \in Tabs \ Actors : start[t] \in StartPaths
          /\ ui = [t \in Tabs |-> Mounted(start[t], <<>>)]
    /\ op = [t \in Tabs |-> Idle]
    /\ ret = [t \in Tabs |-> "none"]
    /\ initPc = [t \in Tabs |-> "mount"]
    /\ refreshing = [t \in Tabs |-> 0]
    /\ evq = [t \in Tabs |-> <<>>]
    /\ inbox = [t \in Tabs |-> <<>>]
    /\ storageEvents = [t \in Tabs |-> <<>>]
    /\ opsUsed = 0
    /\ logoutSent = 0
    /\ logoutDone = 0
    /\ faults = 0
    /\ failedLogins = 0
    /\ attempts = [id \in Identifiers |-> NoRecord]
    /\ now = 0
    /\ answer = NoAnswer
    /\ streak = [id \in Identifiers |-> NoStreak]
    /\ ticks = 0
    /\ allowance = [id \in Identifiers |-> 0]

\* one tab open
Init == Start({"A"}) /\ retries = 0 /\ channelSupported = TRUE

\* two tabs open
InitTabs == Start(Tabs) /\ retries = 0 /\ channelSupported = TRUE

\* ----------------------------------------- AuthProvider: mount effects
\* First render and effects of a tab: the listeners are registered, the
\* initial getSession is called, the route element of the location renders.
Mount(t) ==
    /\ t \in listening /\ initPc[t] = "mount"
    /\ initPc' = [initPc EXCEPT ![t] = "getSession"]
    /\ ui' = Page(t, auth[t], Clear(ui[t]))
    /\ UNCHANGED <<limiterVars, channelSupported>>
    /\ UNCHANGED <<retries, failedLogins>>
    /\ UNCHANGED <<listening, faults, account, provSession, signIns, sessions, rowCount,
                   activity, auth, currentSessionId, op, ret, refreshing, evq, inbox, storageEvents,
                   opsUsed, logoutSent, logoutDone>>

\* getSession() answered: commit session and user, then createSession if
\* a user is logged in, else the finally block.
InitGetSession(t) ==
    /\ initPc[t] = "getSession"
    /\ LET s == provSession
           u == mapSupabaseUser(SessionUser(s))
           st == Dispatch(auth[t], <<SetSession(s), SetUser(u)>>
                             \o (IF s # NoSession THEN <<>> ELSE <<SetLoading(FALSE)>>))
       IN /\ auth' = [auth EXCEPT ![t] = st]
          /\ ui' = Page(t, st, Touch(Clear(ui[t]), auth[t].user, u))
          /\ initPc' = [initPc EXCEPT ![t] = IF s # NoSession THEN "createSession" ELSE "done"]
    /\ UNCHANGED <<limiterVars, channelSupported>>
    /\ UNCHANGED <<retries, failedLogins>>
    /\ UNCHANGED <<listening, faults, account, provSession, signIns, sessions, rowCount,
                   activity, currentSessionId, op, ret, refreshing, evq, inbox, storageEvents, opsUsed,
                   logoutSent, logoutDone>>

\* createSession() answered (null when the insert failed)
InitCreateSession(t) ==
    /\ initPc[t] = "createSession"
    /\ \E ok \in Outcomes :
          /\ faults' = Faults(ok)
          /\ sessions' = IF ok THEN sessions \cup {SessionRow(rowCount + 1, UserId)}
                         ELSE sessions
          /\ rowCount' = IF ok THEN rowCount + 1 ELSE rowCount
          /\ currentSessionId' = IF ok THEN [currentSessionId EXCEPT ![t] = rowCount + 1]
                                 ELSE currentSessionId
    /\ LET st == Dispatch(auth[t], <<SetLoading(FALSE)>>)
       IN /\ auth' = [auth EXCEPT ![t] = st]
          /\ ui' = Page(t, st, Clear(ui[t]))
    /\ initPc' = [initPc EXCEPT ![t] = "done"]
    /\ UNCHANGED <<limiterVars, channelSupported>>
    /\ UNCHANGED <<retries, failedLogins>>
    /\ UNCHANGED <<listening, account, provSession, signIns, activity, op, ret, refreshing,
                   evq, inbox, storageEvents, opsUsed, logoutSent, logoutDone>>

\* ------------------------------ AuthProvider: onAuthStateChange callback
EventActions(e) ==
    (CASE e.type = "SIGNED_IN" /\ e.session # NoSession ->
            <<SetSession(e.session), SetUser(mapSupabaseUser(SessionUser(e.session)))>>
       [] e.type = "SIGNED_OUT" -> <<SetSession(NoSession), SetUser(NullUser)>>
       [] e.type = "TOKEN_REFRESHED" /\ e.session # NoSession -> <<SetSession(e.session)>>
       [] e.type = "USER_UPDATED" /\ e.session # NoSession ->
            <<SetUser(mapSupabaseUser(SessionUser(e.session)))>>
       [] e.type = "MFA_CHALLENGE_VERIFIED" /\ e.session # NoSession ->
            <<SetSession(e.session), SetUser(mapSupabaseUser(SessionUser(e.session)))>>
       [] OTHER -> <<>>)
    \o <<SetLoading(FALSE)>>

onAuthStateChange(t) ==
    /\ evq[t] # <<>>
    /\ LET e == Head(evq[t])
           st == Dispatch(auth[t], EventActions(e))
           setsUser == \E i \in 1..Len(EventActions(e)) : EventActions(e)[i].type = "SET_USER"
       IN /\ auth' = [auth EXCEPT ![t] = st]
          /\ ui' = Page(t, st, IF setsUser THEN Touch(Clear(ui[t]), auth[t].user, st.user)
                               ELSE Clear(ui[t]))
          /\ currentSessionId' = IF e.type = "SIGNED_OUT"
                                 THEN [currentSessionId EXCEPT ![t] = 0]
                                 ELSE currentSessionId
    /\ evq' = [evq EXCEPT ![t] = Tail(@)]
    /\ UNCHANGED <<limiterVars, channelSupported>>
    /\ UNCHANGED <<retries, failedLogins>>
    /\ UNCHANGED <<listening, faults, account, provSession, signIns, sessions, rowCount,
                   activity, op, ret, initPc, refreshing, inbox, storageEvents, opsUsed, logoutSent,
                   logoutDone>>

\* ------------------------------------------------ useSessionSync: broadcast
\* a channel whose messages reach the sender's own listener only
ReceiversSelf(sender) == {t \in listening : initPc[t] # "mount" /\ t = sender}

\* channel.postMessage on a BroadcastChannel that getChannel() has just
\* created: the message goes to every other BroadcastChannel object of that
\* name, and each mounted tab's listener owns such an object, the sender's
\* included.
Receivers(sender) == {t \in listening : initPc[t] # "mount"}

\* the tabs whose window gets the storage events of a write by the sender:
\* the other documents, once their listener is registered
StorageListeners(sender) == {t \in listening : initPc[t] # "mount" /\ t # sender}

AuthSyncKey == "auth_sync"

\* the storage events of localStorage.setItem(key, message) followed by
\* localStorage.removeItem(key)
SetAndRemove(type) ==
    <<[key |-> AuthSyncKey, newValue |-> type], [key |-> AuthSyncKey, newValue |-> "null"]>>

\* broadcast(message): postMessage on the channel if there is one, otherwise
\* the write to and removal from localStorage; neither throws
broadcast(sender, type) ==
    IF channelSupported
    THEN /\ inbox' = [t \in Tabs |-> IF t \in Receivers(sender) THEN Append(inbox[t], type)
                                      ELSE inbox[t]]
         /\ UNCHANGED storageEvents
    ELSE /\ storageEvents' = [t \in Tabs |-> IF t \in StorageListeners(sender)
                                              THEN storageEvents[t] \o SetAndRemove(type)
                                              ELSE storageEvents[t]]
         /\ UNCHANGED inbox

\* ------------------------------------------------------------- screens
\* PublicRoute shows its children
PublicShown(t) == PublicView(auth[t]) = "children"

LoginFormShown(t) == ui[t].path = "/login" /\ PublicShown(t) /\ ~ui[t].needsMFA

RegisterFormShown(t) == ui[t].path = "/register" /\ PublicShown(t)

\* the MFAVerification component is on screen (Login or MFAVerifyPage)
MfaScreenShown(t) ==
    \/ ui[t].path = "/login" /\ PublicShown(t) /\ ui[t].needsMFA
    \/ ui[t].path = "/mfa-verify" /\ ui[t].mfaPage = "ready"

MfaCaller(t) == IF ui[t].path = "/login" THEN "login" ELSE "page"

ProtectedShown(t) ==
    ui[t].path = "/dashboard" /\ GuardView(auth[t], ui[t].guard) = "children"

\* operations the run may still start
Budget == IF listening = Tabs THEN MaxTabOps ELSE MaxOps

CanStart(t) ==
    /\ t \in Actors /\ opsUsed < Budget
    /\ initPc[t] # "mount" /\ op[t].pc = "idle"

\* a further login with a wrong password that the run may still start;
\* these logins come before the run's other operations
CanRetry(t, passwordOk) ==
    /\ ~passwordOk /\ retries > 0 /\ opsUsed = 0
    /\ t \in Actors /\ initPc[t] # "mount" /\ op[t].pc = "idle"

\* --------------------------------------------------------------- login
\* Login.onSubmit -> login(email, password); passwordOk: whether the store
\* will accept the password
Login(t, passwordOk) ==
    /\ CanRetry(t, passwordOk) \/ CanStart(t)
    /\ LoginFormShown(t)
    /\ op' = [op EXCEPT ![t] = Call("login_signIn", passwordOk, "login")]
    /\ ret' = [ret EXCEPT ![t] = "none"]
    /\ IF CanRetry(t, passwordOk)
       THEN retries' = retries - 1 /\ opsUsed' = opsUsed
       ELSE retries' = retries /\ opsUsed' = opsUsed + 1
    /\ UNCHANGED <<limiterVars, channelSupported>>
    /\ UNCHANGED failedLogins
    /\ UNCHANGED <<listening, faults, account, provSession, signIns, sessions, rowCount,
                   activity, auth, currentSessionId, ui, initPc, refreshing, evq, inbox, storageEvents,
                   logoutSent, logoutDone>>

\* signInWithPassword answered
LoginSignIn(t) ==
    /\ op[t].pc = "login_signIn"
    /\ IF ~op[t].arg
       THEN LET st == Dispatch(auth[t],
                         <<SetError("Invalid login credentials"), SetLoading(FALSE)>>)
            IN /\ auth' = [auth EXCEPT ![t] = st]
               /\ ui' = Page(t, st, Clear(ui[t]))
               /\ op' = [op EXCEPT ![t] = Idle]
               /\ ret' = [ret EXCEPT ![t] = "login:rejected"]
               /\ failedLogins' = failedLogins + 1
               /\ UNCHANGED <<provSession, signIns, evq>>
       ELSE LET s == [ver |-> signIns + 1, aal |-> "aal1"]
            IN /\ provSession' = s
               /\ signIns' = signIns + 1
               /\ evq' = [evq EXCEPT ![t] = Append(@, [type |-> "SIGNED_IN", session |-> s])]
               /\ op' = [op EXCEPT ![t].pc = IF ~account.confirmed THEN "login_signOut"
                                             ELSE "login_listFactors",
                                   ![t].data = s]
               /\ failedLogins' = 0
               /\ UNCHANGED <<auth, ui, ret>>
    /\ UNCHANGED <<limiterVars, channelSupported>>
    /\ UNCHANGED retries
    /\ UNCHANGED <<listening, faults, account, sessions, rowCount, activity, currentSessionId,
                   initPc, refreshing, inbox, storageEvents, opsUsed, logoutSent, logoutDone>>

\* unconfirmed email: signOut answered, login returns {needsVerification: true}
\* and Login.onSubmit navigates to /auth/check-email
LoginSignOut(t) ==
    /\ op[t].pc = "login_signOut"
    /\ \E ok \in Outcomes : faults' = Faults(ok) /\ SignedOut(t, ok)
    /\ LET st == Dispatch(auth[t], <<SetLoading(FALSE)>>)
       IN /\ auth' = [auth EXCEPT ![t] = st]
          /\ ui' = Page(t, st, Goto(Clear(ui[t]), "/auth/check-email"))
    /\ op' = [op EXCEPT ![t] = Idle]
    /\ ret' = [ret EXCEPT ![t] = "login:needsVerification"]
    /\ UNCHANGED <<limiterVars, channelSupported>>
    /\ UNCHANGED <<retries, failedLogins>>
    /\ UNCHANGED <<listening, account, signIns, sessions, rowCount, activity,
                   currentSessionId, initPc, refreshing, inbox, storageEvents, opsUsed, logoutSent,
                   logoutDone>>

\* mfa.listFactors answered: with a verified factor login returns
\* {needsMFA: true, factorId} and Login shows the MFA screen; without one
\* the user and session of the sign-in response are committed
LoginListFactors(t) ==
    /\ op[t].pc = "login_listFactors"
    /\ \E ok \in Outcomes :
          /\ faults' = Faults(ok)
          /\ IF VerifiedFactor(ok)
             THEN LET st == Dispatch(auth[t], <<SetLoading(FALSE)>>)
                  IN /\ auth' = [auth EXCEPT ![t] = st]
                     /\ ui' = Page(t, st, [Clear(ui[t]) EXCEPT
                                              !.needsMFA = (ui[t].path = "/login")])
                     /\ op' = [op EXCEPT ![t] = Idle]
                     /\ ret' = [ret EXCEPT ![t] = "login:needsMFA"]
             ELSE LET u == mapSupabaseUser(SessionUser(op[t].data))
                      st == Dispatch(auth[t], <<SetUser(u), SetSession(op[t].data)>>)
                  IN /\ auth' = [auth EXCEPT ![t] = st]
                     /\ ui' = Page(t, st, Touch(Clear(ui[t]), auth[t].user, u))
                     /\ op' = [op EXCEPT ![t].pc = "login_createSession"]
                     /\ UNCHANGED ret
    /\ UNCHANGED <<limiterVars, channelSupported>>
    /\ UNCHANGED <<retries, failedLogins>>
    /\ UNCHANGED <<listening, account, provSession, signIns, sessions, rowCount, activity,
                   currentSessionId, initPc, refreshing, evq, inbox, storageEvents, opsUsed,
                   logoutSent, logoutDone>>

\* a createSession whose failure ends the operation that awaits it
CreateSessionStepThrows(t, ok, nextPc) ==
    /\ sessions' = IF ok THEN sessions \cup {SessionRow(rowCount + 1, SessionUser(op[t].data).id)}
                   ELSE sessions
    /\ rowCount' = IF ok THEN rowCount + 1 ELSE rowCount
    /\ currentSessionId' = IF ok THEN [currentSessionId EXCEPT ![t] = rowCount + 1]
                           ELSE currentSessionId
    /\ op' = IF ok THEN [op EXCEPT ![t].pc = nextPc] ELSE [op EXCEPT ![t] = Idle]

\* createSession answered inside an operation: setCurrentSessionId on a row
CreateSessionStep(t, ok, nextPc) ==
    /\ sessions' = IF ok THEN sessions \cup {SessionRow(rowCount + 1, SessionUser(op[t].data).id)}
                   ELSE sessions
    /\ rowCount' = IF ok THEN rowCount + 1 ELSE rowCount
    /\ currentSessionId' = IF ok THEN [currentSessionId EXCEPT ![t] = rowCount + 1]
                           ELSE currentSessionId
    /\ op' = [op EXCEPT ![t].pc = nextPc]

LoginCreateSession(t) ==
    /\ op[t].pc = "login_createSession"
    /\ \E ok \in Outcomes : faults' = Faults(ok) /\ CreateSessionStep(t, ok, "login_logActivity")
    /\ UNCHANGED <<limiterVars, channelSupported>>
    /\ UNCHANGED <<retries, failedLogins>>
    /\ UNCHANGED <<listening, account, provSession, signIns, activity, auth, ui, ret, initPc,
                   refreshing, evq, inbox, storageEvents, opsUsed, logoutSent, logoutDone>>

\* logActivity answered; broadcast LOGIN; login returns {needsVerification: false}
LoginLogActivity(t) ==
    /\ op[t].pc = "login_logActivity"
    /\ \E ok \in Outcomes :
          /\ faults' = Faults(ok)
          /\ activity' = IF ok THEN Append(activity, [event |-> "login", mfa |-> FALSE])
                         ELSE activity
    /\ broadcast(t, "LOGIN")
    /\ LET st == Dispatch(auth[t], <<SetLoading(FALSE)>>)
       IN /\ auth' = [auth EXCEPT ![t] = st]
          /\ ui' = Page(t, st, Clear(ui[t]))
    /\ op' = [op EXCEPT ![t] = Idle]
    /\ ret' = [ret EXCEPT ![t] = "login:ok"]
    /\ UNCHANGED <<limiterVars, channelSupported>>
    /\ UNCHANGED <<retries, failedLogins>>
    /\ UNCHANGED <<listening, account, provSession, signIns, sessions, rowCount,
                   currentSessionId, initPc, refreshing, evq, opsUsed, logoutSent,
                   logoutDone>>

\* ------------------------------------------------------------ register
\* Register form -> register(email, password): SET_LOADING true, SET_ERROR
\* null, then signUp is awaited; accepted: whether the store will accept
\* the sign-up
Register(t, accepted) ==
    /\ CanStart(t) /\ RegisterFormShown(t)
    /\ LET st == Dispatch(auth[t], <<SetLoading(TRUE), SetError("null")>>)
       IN /\ auth' = [auth EXCEPT ![t] = st]
          /\ ui' = Page(t, st, Clear(ui[t]))
    /\ op' = [op EXCEPT ![t] = Call("register_signUp", accepted, "register")]
    /\ ret' = [ret EXCEPT ![t] = "none"]
    /\ opsUsed' = opsUsed + 1
    /\ UNCHANGED <<limiterVars, channelSupported>>
    /\ UNCHANGED <<retries, failedLogins>>
    /\ UNCHANGED <<listening, faults, account, provSession, signIns, sessions, rowCount,
                   activity, currentSessionId, initPc, refreshing, evq, inbox, storageEvents, logoutSent,
                   logoutDone>>

\* signUp answers without session (!data.session, or identities = []): the
\* project asks for email confirmation, or the email has an account already
SignUpNeedsVerification == ~account.confirmed \/ account.hasFactor

\* signUp answered: an error is rethrown after SET_ERROR; without session
\* register returns {needsVerification: true}; with one (the store emits
\* SIGNED_IN) user and session are committed and createSession is awaited
RegisterSignUp(t) ==
    /\ op[t].pc = "register_signUp"
    /\ IF ~op[t].arg
       THEN LET st == Dispatch(auth[t], <<SetError("User already registered"),
                                          SetLoading(FALSE)>>)
            IN /\ auth' = [auth EXCEPT ![t] = st]
               /\ ui' = Page(t, st, Clear(ui[t]))
               /\ op' = [op EXCEPT ![t] = Idle]
               /\ ret' = [ret EXCEPT ![t] = "register:rejected"]
               /\ UNCHANGED <<provSession, signIns, evq>>
       ELSE IF SignUpNeedsVerification
       THEN LET st == Dispatch(auth[t], <<SetLoading(FALSE)>>)
            IN /\ auth' = [auth EXCEPT ![t] = st]
               /\ ui' = Page(t, st, Clear(ui[t]))
               /\ op' = [op EXCEPT ![t] = Idle]
               /\ ret' = [ret EXCEPT ![t] = "register:needsVerification"]
               /\ UNCHANGED <<provSession, signIns, evq>>
       ELSE LET s == [ver |-> signIns + 1, aal |-> "aal1"]
                u == mapSupabaseUser(SessionUser(s))
                st == Dispatch(auth[t], <<SetUser(u), SetSession(s)>>)
            IN /\ provSession' = s
               /\ signIns' = signIns + 1
               /\ evq' = [evq EXCEPT ![t] = Append(@, [type |-> "SIGNED_IN", session |-> s])]
               /\ auth' = [auth EXCEPT ![t] = st]
               /\ ui' = Page(t, st, Touch(Clear(ui[t]), auth[t].user, u))
               /\ op' = [op EXCEPT ![t].pc = "register_createSession", ![t].data = s]
               /\ UNCHANGED ret
    /\ UNCHANGED <<limiterVars, channelSupported>>
    /\ UNCHANGED <<retries, failedLogins>>
    /\ UNCHANGED <<listening, faults, account, sessions, rowCount, activity, currentSessionId,
                   initPc, refreshing, inbox, storageEvents, opsUsed, logoutSent, logoutDone>>

RegisterCreateSession(t) ==
    /\ op[t].pc = "register_createSession"
    /\ \E ok \in Outcomes :
          faults' = Faults(ok) /\ CreateSessionStep(t, ok, "register_logActivity")
    /\ UNCHANGED <<limiterVars, channelSupported>>
    /\ UNCHANGED <<retries, failedLogins>>
    /\ UNCHANGED <<listening, account, provSession, signIns, activity, auth, ui, ret, initPc,
                   refreshing, evq, inbox, storageEvents, opsUsed, logoutSent, logoutDone>>

\* logActivity(login, registration) answered; register returns
\* {needsVerification: false}
RegisterLogActivity(t) ==
    /\ op[t].pc = "register_logActivity"
    /\ \E ok \in Outcomes :
          /\ faults' = Faults(ok)
          /\ activity' = IF ok THEN Append(activity, [event |-> "login", mfa |-> FALSE])
                         ELSE activity
    /\ LET st == Dispatch(auth[t], <<SetLoading(FALSE)>>)
       IN /\ auth' = [auth EXCEPT ![t] = st]
          /\ ui' = Page(t, st, Clear(ui[t]))
    /\ op' = [op EXCEPT ![t] = Idle]
    /\ ret' = [ret EXCEPT ![t] = "register:ok"]
    /\ UNCHANGED <<limiterVars, channelSupported>>
    /\ UNCHANGED <<retries, failedLogins>>
    /\ UNCHANGED <<listening, account, provSession, signIns, sessions, rowCount,
                   currentSessionId, initPc, refreshing, evq, inbox, storageEvents, opsUsed, logoutSent,
                   logoutDone>>

\* ----------------------------------------------------- MFAVerification
\* handleVerify(code) -> verifyChallenge -> mfa.verify
handleVerify(t, codeOk) ==
    /\ CanStart(t) /\ MfaScreenShown(t)
    /\ op' = [op EXCEPT ![t] = Call("verify_mfaVerify", codeOk, MfaCaller(t))]
    /\ ret' = [ret EXCEPT ![t] = "none"]
    /\ opsUsed' = opsUsed + 1
    /\ UNCHANGED <<limiterVars, channelSupported>>
    /\ UNCHANGED <<retries, failedLogins>>
    /\ UNCHANGED <<listening, faults, account, provSession, signIns, sessions, rowCount,
                   activity, auth, currentSessionId, ui, initPc, refreshing, evq, inbox, storageEvents,
                   logoutSent, logoutDone>>

\* mfa.verify answered: a right code upgrades the store session to aal2 and
\* notifies MFA_CHALLENGE_VERIFIED; verifyChallenge returns true and
\* onSuccess enters completeMFALogin (suspended at its getSession)
verifyChallenge(t) ==
    /\ op[t].pc = "verify_mfaVerify"
    /\ IF op[t].arg /\ provSession # NoSession
       THEN LET s == [provSession EXCEPT !.aal = "aal2"]
            IN /\ provSession' = s
               /\ evq' = [evq EXCEPT ![t] =
                      Append(@, [type |-> "MFA_CHALLENGE_VERIFIED", session |-> s])]
               /\ op' = [op EXCEPT ![t].pc = "mfa_getSession"]
               /\ UNCHANGED ret
       ELSE /\ op' = [op EXCEPT ![t] = Idle]
            /\ ret' = [ret EXCEPT ![t] = "verify:rejected"]
            /\ UNCHANGED <<provSession, evq>>
    /\ UNCHANGED <<limiterVars, channelSupported>>
    /\ UNCHANGED <<retries, failedLogins>>
    /\ UNCHANGED <<listening, faults, account, signIns, sessions, rowCount, activity, auth,
                   currentSessionId, ui, initPc, refreshing, inbox, storageEvents, opsUsed,
                   logoutSent, logoutDone>>

\* handleBackupCodeSubmit: no store call; onSuccess for any long enough code
handleBackupCodeSubmit(t, length) ==
    /\ CanStart(t) /\ MfaScreenShown(t)
    /\ op' = [op EXCEPT ![t] = IF length >= MinBackupCodeLength
                               THEN Call("mfa_getSession", FALSE, MfaCaller(t))
                               ELSE Idle]
    /\ ret' = [ret EXCEPT ![t] = "none"]
    /\ opsUsed' = opsUsed + 1
    /\ UNCHANGED <<limiterVars, channelSupported>>
    /\ UNCHANGED <<retries, failedLogins>>
    /\ UNCHANGED <<listening, faults, account, provSession, signIns, sessions, rowCount,
                   activity, auth, currentSessionId, ui, initPc, refreshing, evq, inbox, storageEvents,
                   logoutSent, logoutDone>>

\* handleMFABack: Login hides the MFA screen at once; both callers sign out
handleMFABack(t) ==
    /\ CanStart(t) /\ MfaScreenShown(t)
    /\ op' = [op EXCEPT ![t] = Call("back_signOut", TRUE, MfaCaller(t))]
    /\ ui' = [ui EXCEPT ![t].needsMFA = FALSE, ![t].navs = <<>>]
    /\ ret' = [ret EXCEPT ![t] = "none"]
    /\ opsUsed' = opsUsed + 1
    /\ UNCHANGED <<limiterVars, channelSupported>>
    /\ UNCHANGED <<retries, failedLogins>>
    /\ UNCHANGED <<listening, faults, account, provSession, signIns, sessions, rowCount,
                   activity, auth, currentSessionId, initPc, refreshing, evq, inbox, storageEvents,
                   logoutSent, logoutDone>>

\* that signOut answered; MFAVerifyPage then navigates to /login
BackSignOut(t) ==
    /\ op[t].pc = "back_signOut"
    /\ \E ok \in Outcomes : faults' = Faults(ok) /\ SignedOut(t, ok)
    /\ ui' = IF op[t].from = "page"
             THEN Page(t, auth[t], Goto(Clear(ui[t]), "/login"))
             ELSE ui
    /\ op' = [op EXCEPT ![t] = Idle]
    /\ ret' = [ret EXCEPT ![t] = "back:done"]
    /\ UNCHANGED <<limiterVars, channelSupported>>
    /\ UNCHANGED <<retries, failedLogins>>
    /\ UNCHANGED <<listening, account, signIns, sessions, rowCount, activity, auth,
                   currentSessionId, initPc, refreshing, inbox, storageEvents, opsUsed, logoutSent,
                   logoutDone>>

\* ---------------------------------------------------- completeMFALogin
\* completeMFALogin threw: handleMFASuccess's catch (Login: back to the
\* form; MFAVerifyPage: error text)
CompleteRejected(t) ==
    /\ op' = [op EXCEPT ![t] = Idle]
    /\ ret' = [ret EXCEPT ![t] = "mfa:rejected"]
    /\ ui' = [ui EXCEPT ![t] =
           IF op[t].from = "login" /\ @.path = "/login" THEN [@ EXCEPT !.needsMFA = FALSE]
           ELSE IF op[t].from = "page" /\ @.path = "/mfa-verify"
                THEN [@ EXCEPT !.mfaPage = "error"]
           ELSE @]

\* getSession answered
CompleteGetSession(t) ==
    /\ op[t].pc = "mfa_getSession"
    /\ IF provSession = NoSession
       THEN CompleteRejected(t)
       ELSE /\ op' = [op EXCEPT ![t].pc = "mfa_aal", ![t].data = provSession]
            /\ UNCHANGED <<ret, ui>>
    /\ UNCHANGED <<limiterVars, channelSupported>>
    /\ UNCHANGED <<retries, failedLogins>>
    /\ UNCHANGED <<listening, faults, account, provSession, signIns, sessions, rowCount,
                   activity, auth, currentSessionId, initPc, refreshing, evq, inbox, storageEvents, opsUsed,
                   logoutSent, logoutDone>>

\* an assurance check that lets every live session through
LevelAcceptedAny(level) == level \in {"aal1", "aal2"}

\* does the assurance level let completeMFALogin commit
LevelAccepted(level) == level = "aal2"

\* mfa.getAuthenticatorAssuranceLevel answered: commit only at aal2
CompleteAAL(t) ==
    /\ op[t].pc = "mfa_aal"
    /\ \E ok \in Outcomes :
          /\ faults' = Faults(ok)
          /\ IF ~LevelAccepted(CurrentLevel(ok))
             THEN CompleteRejected(t) /\ UNCHANGED auth
             ELSE LET u == mapSupabaseUser(SessionUser(op[t].data))
                      st == Dispatch(auth[t], <<SetSession(op[t].data), SetUser(u)>>)
                  IN /\ auth' = [auth EXCEPT ![t] = st]
                     /\ ui' = Page(t, st, Touch(Clear(ui[t]), auth[t].user, u))
                     /\ op' = [op EXCEPT ![t].pc = "mfa_createSession"]
                     /\ UNCHANGED ret
    /\ UNCHANGED <<limiterVars, channelSupported>>
    /\ UNCHANGED <<retries, failedLogins>>
    /\ UNCHANGED <<listening, account, provSession, signIns, sessions, rowCount, activity,
                   currentSessionId, initPc, refreshing, evq, inbox, storageEvents, opsUsed,
                   logoutSent, logoutDone>>

CompleteCreateSession(t) ==
    /\ op[t].pc = "mfa_createSession"
    /\ \E ok \in Outcomes : faults' = Faults(ok) /\ CreateSessionStep(t, ok, "mfa_logActivity")
    /\ UNCHANGED <<limiterVars, channelSupported>>
    /\ UNCHANGED <<retries, failedLogins>>
    /\ UNCHANGED <<listening, account, provSession, signIns, activity, auth, ui, ret, initPc,
                   refreshing, evq, inbox, storageEvents, opsUsed, logoutSent, logoutDone>>

\* logActivity answered; broadcast LOGIN; return true; the caller navigates
CompleteLogActivity(t) ==
    /\ op[t].pc = "mfa_logActivity"
    /\ \E ok \in Outcomes :
          /\ faults' = Faults(ok)
          /\ activity' = IF ok THEN Append(activity, [event |-> "login", mfa |-> TRUE])
                         ELSE activity
    /\ broadcast(t, "LOGIN")
    /\ op' = [op EXCEPT ![t] = Idle]
    /\ ret' = [ret EXCEPT ![t] = "mfa:ok"]
    /\ ui' = Page(t, auth[t], Goto(Clear(ui[t]), "/dashboard"))
    /\ UNCHANGED <<limiterVars, channelSupported>>
    /\ UNCHANGED <<retries, failedLogins>>
    /\ UNCHANGED <<listening, account, provSession, signIns, sessions, rowCount, auth,
                   currentSessionId, initPc, refreshing, evq, opsUsed, logoutSent,
                   logoutDone>>

\* -------------------------------------------------------------- logout
\* Dashboard.handleLogout -> logout(): SET_LOADING true, SET_ERROR null,
\* then signOut is awaited
Logout(t) ==
    /\ CanStart(t) /\ ProtectedShown(t)
    /\ LET st == Dispatch(auth[t], <<SetLoading(TRUE), SetError("null")>>)
       IN /\ auth' = [auth EXCEPT ![t] = st]
          /\ ui' = Page(t, st, Clear(ui[t]))
    /\ op' = [op EXCEPT ![t] = Call("logout_signOut", TRUE, "dashboard")]
    /\ ret' = [ret EXCEPT ![t] = "none"]
    /\ opsUsed' = opsUsed + 1
    /\ UNCHANGED <<limiterVars, channelSupported>>
    /\ UNCHANGED <<retries, failedLogins>>
    /\ UNCHANGED <<listening, faults, account, provSession, signIns, sessions, rowCount,
                   activity, currentSessionId, initPc, refreshing, evq, inbox, storageEvents, logoutSent,
                   logoutDone>>

\* a logout() whose catch block dispatches nothing
LogoutActionsSilent(ok) ==
    IF ok THEN <<SetUser(NullUser), SetSession(NoSession), SetLoading(FALSE)>>
    ELSE <<SetLoading(FALSE)>>

\* the dispatches logout() makes once signOut has answered
LogoutActions(ok) ==
    IF ok THEN <<SetUser(NullUser), SetSession(NoSession), SetLoading(FALSE)>>
    ELSE <<SetError("signOut failed"), SetLoading(FALSE)>>

\* signOut answered: on success clear the local state, broadcast LOGOUT and
\* (Dashboard) navigate to /login; on error SET_ERROR and rethrow
LogoutSignOut(t) ==
    /\ op[t].pc = "logout_signOut"
    /\ \E ok \in Outcomes :
          /\ faults' = Faults(ok)
          /\ SignedOut(t, ok)
          /\ LET st == Dispatch(auth[t], LogoutActions(ok))
                 u == Touch(Clear(ui[t]), auth[t].user, st.user)
             IN /\ auth' = [auth EXCEPT ![t] = st]
                /\ ui' = Page(t, st, IF ok THEN Goto(u, "/login") ELSE u)
          /\ IF ok
             THEN /\ currentSessionId' = [currentSessionId EXCEPT ![t] = 0]
                  /\ broadcast(t, "LOGOUT")
                  /\ logoutSent' = logoutSent + 1
                  /\ logoutDone' = logoutDone + 1
                  /\ ret' = [ret EXCEPT ![t] = "logout:ok"]
             ELSE /\ ret' = [ret EXCEPT ![t] = "logout:rejected"]
                  /\ UNCHANGED <<currentSessionId, inbox, storageEvents, logoutSent, logoutDone>>
    /\ op' = [op EXCEPT ![t] = Idle]
    /\ UNCHANGED <<limiterVars, channelSupported>>
    /\ UNCHANGED <<retries, failedLogins>>
    /\ UNCHANGED <<listening, account, signIns, sessions, rowCount, activity, initPc,
                   refreshing, opsUsed>>

\* --------------------------------------------------- deleteUserAccount
\* called from a protected page; state.user and currentSessionId are the
\* values of the render that created the callback
DeleteUserAccount(t) ==
    /\ CanStart(t) /\ ProtectedShown(t)
    /\ op' = [op EXCEPT ![t] =
           [Call("delete_logActivity", TRUE, "profile") EXCEPT !.sid = currentSessionId[t]]]
    /\ ret' = [ret EXCEPT ![t] = "none"]
    /\ opsUsed' = opsUsed + 1
    /\ UNCHANGED <<limiterVars, channelSupported>>
    /\ UNCHANGED <<retries, failedLogins>>
    /\ UNCHANGED <<listening, faults, account, provSession, signIns, sessions, rowCount,
                   activity, auth, currentSessionId, ui, initPc, refreshing, evq, inbox, storageEvents,
                   logoutSent, logoutDone>>

\* logActivity(logout, account_deletion) answered
DeleteLogActivity(t) ==
    /\ op[t].pc = "delete_logActivity"
    /\ \E ok \in Outcomes :
          /\ faults' = Faults(ok)
          /\ activity' = IF ok THEN Append(activity, [event |-> "logout", mfa |-> FALSE])
                         ELSE activity
    /\ op' = [op EXCEPT ![t].pc = IF op[t].sid # 0 THEN "delete_deleteSession"
                                  ELSE "delete_signOut"]
    /\ UNCHANGED <<limiterVars, channelSupported>>
    /\ UNCHANGED <<retries, failedLogins>>
    /\ UNCHANGED <<listening, account, provSession, signIns, sessions, rowCount, auth,
                   currentSessionId, ui, ret, initPc, refreshing, evq, inbox, storageEvents, opsUsed,
                   logoutSent, logoutDone>>

\* deleteSession(currentSessionId) answered
DeleteDeleteSession(t) ==
    /\ op[t].pc = "delete_deleteSession"
    /\ \E ok \in Outcomes :
          /\ faults' = Faults(ok)
          /\ sessions' = IF ok THEN {row \in sessions : row.id # op[t].sid} ELSE sessions
    /\ op' = [op EXCEPT ![t].pc = "delete_signOut"]
    /\ UNCHANGED <<limiterVars, channelSupported>>
    /\ UNCHANGED <<retries, failedLogins>>
    /\ UNCHANGED <<listening, account, provSession, signIns, rowCount, activity, auth,
                   currentSessionId, ui, ret, initPc, refreshing, evq, inbox, storageEvents, opsUsed,
                   logoutSent, logoutDone>>

\* signOut answered: on success clear, broadcast LOGOUT; on error rethrow
DeleteSignOut(t) ==
    /\ op[t].pc = "delete_signOut"
    /\ \E ok \in Outcomes :
          /\ faults' = Faults(ok)
          /\ SignedOut(t, ok)
          /\ IF ok
             THEN LET st == Dispatch(auth[t], <<SetUser(NullUser), SetSession(NoSession)>>)
                  IN /\ auth' = [auth EXCEPT ![t] = st]
                     /\ ui' = Page(t, st, Touch(Clear(ui[t]), auth[t].user, NullUser))
                     /\ currentSessionId' = [currentSessionId EXCEPT ![t] = 0]
                     /\ broadcast(t, "LOGOUT")
                     /\ logoutSent' = logoutSent + 1
                     /\ logoutDone' = logoutDone + 1
                     /\ ret' = [ret EXCEPT ![t] = "delete:ok"]
             ELSE /\ ret' = [ret EXCEPT ![t] = "delete:rejected"]
                  /\ UNCHANGED <<auth, ui, currentSessionId, inbox, storageEvents, logoutSent, logoutDone>>
    /\ op' = [op EXCEPT ![t] = Idle]
    /\ UNCHANGED <<limiterVars, channelSupported>>
    /\ UNCHANGED <<retries, failedLogins>>
    /\ UNCHANGED <<listening, account, signIns, sessions, rowCount, activity, initPc,
                   refreshing, opsUsed>>

\* ------------------------------------------- signOutAllOtherSessions
\* a guard that asks for the user only
OthersKnownUserOnly(user, sid) == user # NullUser

\* does signOutAllOtherSessions know whose rows to delete and which to keep
OthersKnown(user, sid) == user # NullUser /\ sid # 0

\* the rows deleteOtherSessions(userId, currentSessionId) leaves
deleteOtherSessions(rows, userId, sid) ==
    {row \in rows : ~(row.user_id = userId /\ row.id # sid)}

\* signOutAllOtherSessions(), a function of the context that any mounted
\* component may call: without user or currentSessionId it throws at once
signOutAllOtherSessions(t) ==
    /\ CanStart(t)
    /\ IF OthersKnown(auth[t].user, currentSessionId[t])
       THEN /\ op' = [op EXCEPT ![t] =
                   [Call("others_delete", TRUE, "context") EXCEPT !.sid = currentSessionId[t]]]
            /\ ret' = [ret EXCEPT ![t] = "none"]
       ELSE /\ op' = op
            /\ ret' = [ret EXCEPT ![t] = "others:rejected"]
    /\ opsUsed' = opsUsed + 1
    /\ UNCHANGED <<limiterVars, channelSupported>>
    /\ UNCHANGED <<retries, failedLogins>>
    /\ UNCHANGED <<listening, faults, account, provSession, signIns, sessions, rowCount,
                   activity, auth, currentSessionId, ui, initPc, refreshing, evq, inbox, storageEvents,
                   logoutSent, logoutDone>>

\* deleteOtherSessions answered (a failed delete is only logged)
OthersDeleteSessions(t) ==
    /\ op[t].pc = "others_delete"
    /\ \E ok \in Outcomes :
          /\ faults' = Faults(ok)
          /\ sessions' = IF ok THEN deleteOtherSessions(sessions, UserId, op[t].sid)
                         ELSE sessions
    /\ op' = [op EXCEPT ![t].pc = "others_logActivity"]
    /\ UNCHANGED <<limiterVars, channelSupported>>
    /\ UNCHANGED <<retries, failedLogins>>
    /\ UNCHANGED <<listening, account, provSession, signIns, rowCount, activity, auth,
                   currentSessionId, ui, ret, initPc, refreshing, evq, inbox, storageEvents, opsUsed,
                   logoutSent, logoutDone>>

\* logActivity(logout, all_other_sessions) answered
OthersLogActivity(t) ==
    /\ op[t].pc = "others_logActivity"
    /\ \E ok \in Outcomes :
          /\ faults' = Faults(ok)
          /\ activity' = IF ok THEN Append(activity, [event |-> "logout", mfa |-> FALSE])
                         ELSE activity
    /\ op' = [op EXCEPT ![t] = Idle]
    /\ ret' = [ret EXCEPT ![t] = "others:ok"]
    /\ UNCHANGED <<limiterVars, channelSupported>>
    /\ UNCHANGED <<retries, failedLogins>>
    /\ UNCHANGED <<listening, account, provSession, signIns, sessions, rowCount, auth,
                   currentSessionId, ui, initPc, refreshing, evq, inbox, storageEvents, opsUsed,
                   logoutSent, logoutDone>>

\* ------------------------------- useSessionSync listener + onMessage
\* the dispatches of AuthProvider's onMessage callback
\* an onMessage callback that reports the LOGOUT it has received as an error
MessageActionsReported(type) ==
    IF type = "LOGOUT"
    THEN <<SetUser(NullUser), SetSession(NoSession), SetError("Signed out in another tab")>>
    ELSE <<>>

MessageActions(type) ==
    IF type = "LOGOUT" THEN <<SetUser(NullUser), SetSession(NoSession)>> ELSE <<>>

\* a listener that sends every LOGOUT it receives on again
RebroadcastLogout(type) == type = "LOGOUT"

\* does handling a message of this type call broadcast again
Rebroadcast(type) == FALSE

\* a listener that navigates on LOGOUT only
MessageTargetLogoutOnly(type, pathname) ==
    IF type = "LOGOUT" THEN "/login" ELSE "stay"

\* where handleMessage navigates to, given the current location
MessageTarget(type, pathname) ==
    CASE type = "LOGOUT" -> "/login"
      [] type = "LOGIN" /\ pathname = "/login" -> "/dashboard"
      [] OTHER -> "stay"

\* handleMessage(event): onMessage(message), then the switch on message.type
handleMessage(t) ==
    /\ inbox[t] # <<>>
    /\ LET type == Head(inbox[t])
           rest == [inbox EXCEPT ![t] = Tail(@)]
           st == Dispatch(auth[t], MessageActions(type))
           u == IF type = "LOGOUT" THEN Touch(Clear(ui[t]), auth[t].user, NullUser)
                ELSE Clear(ui[t])
           target == MessageTarget(type, ui[t].path)
       IN /\ auth' = [auth EXCEPT ![t] = st]
          /\ currentSessionId' = IF type = "LOGOUT"
                                 THEN [currentSessionId EXCEPT ![t] = 0]
                                 ELSE currentSessionId
          /\ refreshing' = IF type = "LOGIN" THEN [refreshing EXCEPT ![t] = @ + 1]
                           ELSE refreshing
          /\ ui' = Page(t, st, IF target = "stay" THEN u ELSE Goto(u, target))
          /\ inbox' = IF Rebroadcast(type)
                      THEN [x \in Tabs |-> IF x \in Receivers(t) THEN Append(rest[x], type)
                                           ELSE rest[x]]
                      ELSE rest
          /\ logoutSent' = IF Rebroadcast(type) /\ type = "LOGOUT" THEN logoutSent + 1
                           ELSE logoutSent
    /\ UNCHANGED storageEvents
    /\ UNCHANGED <<limiterVars, channelSupported>>
    /\ UNCHANGED <<retries, failedLogins>>
    /\ UNCHANGED <<listening, faults, account, provSession, signIns, sessions, rowCount,
                   activity, op, ret, initPc, evq, opsUsed, logoutDone>>

\* handleStorageChange(event): an event of the auth_sync key with a new value
\* is parsed, and that is all; the call of handleMessage on the parsed
\* message is commented out
handleStorageChange(t) ==
    /\ storageEvents[t] # <<>>
    /\ storageEvents' = [storageEvents EXCEPT ![t] = Tail(@)]
    /\ UNCHANGED <<limiterVars, channelSupported>>
    /\ UNCHANGED <<retries, failedLogins>>
    /\ UNCHANGED <<listening, faults, account, provSession, signIns, sessions, rowCount,
                   activity, auth, currentSessionId, ui, op, ret, initPc, refreshing, evq,
                   inbox, opsUsed, logoutSent, logoutDone>>

\* refreshSession: getSession answered; commit only an existing session
refreshSession(t) ==
    /\ refreshing[t] > 0
    /\ refreshing' = [refreshing EXCEPT ![t] = @ - 1]
    /\ LET s == provSession
           u == mapSupabaseUser(SessionUser(s))
           st == Dispatch(auth[t], <<SetSession(s), SetUser(u)>>)
       IN IF s # NoSession
          THEN /\ auth' = [auth EXCEPT ![t] = st]
               /\ ui' = Page(t, st, Touch(Clear(ui[t]), auth[t].user, u))
          ELSE UNCHANGED <<auth, ui>>
    /\ UNCHANGED <<limiterVars, channelSupported>>
    /\ UNCHANGED <<retries, failedLogins>>
    /\ UNCHANGED <<listening, faults, account, provSession, signIns, sessions, rowCount,
                   activity, currentSessionId, op, ret, initPc, evq, inbox, storageEvents, opsUsed,
                   logoutSent, logoutDone>>

\* ------------------------------------------------------ ProtectedRoute
\* checkMFAStatus settles: mfaVerified and checking are set
GuardSet(g, verified) ==
    [g EXCEPT !.mfaVerified = verified, !.checking = FALSE, !.pc = "none"]

\* getSession answered: an error or no session gives mfaVerified = false
GuardGetSession(t) ==
    /\ ui[t].path = "/dashboard" /\ ui[t].guard.pc = "getSession"
    /\ \E ok \in Outcomes :
          /\ faults' = Faults(ok)
          /\ ui' = Page(t, auth[t], [Clear(ui[t]) EXCEPT !.guard =
                 IF ~ok \/ provSession = NoSession THEN GuardSet(@, "false")
                 ELSE [@ EXCEPT !.pc = "listFactors"]])
    /\ UNCHANGED <<limiterVars, channelSupported>>
    /\ UNCHANGED <<retries, failedLogins>>
    /\ UNCHANGED <<listening, account, provSession, signIns, sessions, rowCount, activity,
                   auth, currentSessionId, op, ret, initPc, refreshing, evq, inbox, storageEvents, opsUsed,
                   logoutSent, logoutDone>>

\* listFactors answered: hasMFA is falsy on a failed call
GuardListFactors(t) ==
    /\ ui[t].path = "/dashboard" /\ ui[t].guard.pc = "listFactors"
    /\ \E ok \in Outcomes :
          /\ faults' = Faults(ok)
          /\ ui' = Page(t, auth[t], [Clear(ui[t]) EXCEPT !.guard =
                 IF VerifiedFactor(ok) THEN [@ EXCEPT !.pc = "aal"]
                 ELSE GuardSet(@, "true")])
    /\ UNCHANGED <<limiterVars, channelSupported>>
    /\ UNCHANGED <<retries, failedLogins>>
    /\ UNCHANGED <<listening, account, provSession, signIns, sessions, rowCount, activity,
                   auth, currentSessionId, op, ret, initPc, refreshing, evq, inbox, storageEvents, opsUsed,
                   logoutSent, logoutDone>>

\* getAuthenticatorAssuranceLevel answered
GuardAAL(t) ==
    /\ ui[t].path = "/dashboard" /\ ui[t].guard.pc = "aal"
    /\ \E ok \in Outcomes :
          /\ faults' = Faults(ok)
          /\ ui' = Page(t, auth[t], [Clear(ui[t]) EXCEPT !.guard =
                 GuardSet(@, IF CurrentLevel(ok) = "aal2" THEN "true" ELSE "false")])
    /\ UNCHANGED <<limiterVars, channelSupported>>
    /\ UNCHANGED <<retries, failedLogins>>
    /\ UNCHANGED <<listening, account, provSession, signIns, sessions, rowCount, activity,
                   auth, currentSessionId, op, ret, initPc, refreshing, evq, inbox, storageEvents, opsUsed,
                   logoutSent, logoutDone>>

\* ------------------------------------------------------- MFAVerifyPage
\* checkMFAStatus: getSession answered; no session sends the tab to /login
MfaPageGetSession(t) ==
    /\ ui[t].path = "/mfa-verify" /\ ui[t].mfaPage = "getSession"
    /\ ui' = Page(t, auth[t], IF provSession = NoSession THEN Goto(Clear(ui[t]), "/login")
                              ELSE [Clear(ui[t]) EXCEPT !.mfaPage = "listFactors"])
    /\ UNCHANGED <<limiterVars, channelSupported>>
    /\ UNCHANGED <<retries, failedLogins>>
    /\ UNCHANGED <<listening, faults, account, provSession, signIns, sessions, rowCount,
                   activity, auth, currentSessionId, op, ret, initPc, refreshing, evq, inbox, storageEvents,
                   opsUsed, logoutSent, logoutDone>>

\* listFactors answered: error text, or /dashboard without a verified
\* factor, or the MFA screen
MfaPageListFactors(t) ==
    /\ ui[t].path = "/mfa-verify" /\ ui[t].mfaPage = "listFactors"
    /\ \E ok \in Outcomes :
          /\ faults' = Faults(ok)
          /\ ui' = Page(t, auth[t],
                 IF ~ok THEN [Clear(ui[t]) EXCEPT !.mfaPage = "error"]
                 ELSE IF ~VerifiedFactor(ok) THEN Goto(Clear(ui[t]), "/dashboard")
                 ELSE [Clear(ui[t]) EXCEPT !.mfaPage = "ready"])
    /\ UNCHANGED <<limiterVars, channelSupported>>
    /\ UNCHANGED <<retries, failedLogins>>
    /\ UNCHANGED <<listening, account, provSession, signIns, sessions, rowCount, activity,
                   auth, currentSessionId, op, ret, initPc, refreshing, evq, inbox, storageEvents, opsUsed,
                   logoutSent, logoutDone>>

\* ------------------------------------------- credential store: own events
\* events the store's client sends to its subscriber without the context
\* having asked for a session
StoreEvents == {"TOKEN_REFRESHED", "USER_UPDATED"}

\* The store's client in tab t notifies the subscriber: its refresh timer has
\* replaced the session by one with new tokens (TOKEN_REFRESHED), or
\* updateUser has been answered and the session is the same
\* (USER_UPDATED).  An operation of the tab may be suspended meanwhile.
StoreNotifies(t, type) ==
    /\ t \in Actors /\ opsUsed < Budget
    /\ initPc[t] # "mount"
    /\ provSession # NoSession
    /\ LET s == IF type = "TOKEN_REFRESHED" THEN [provSession EXCEPT !.ver = signIns + 1]
                ELSE provSession
       IN /\ provSession' = s
          /\ signIns' = IF type = "TOKEN_REFRESHED" THEN signIns + 1 ELSE signIns
          /\ evq' = [evq EXCEPT ![t] = Append(@, [type |-> type, session |-> s])]
    /\ opsUsed' = opsUsed + 1
    /\ UNCHANGED <<limiterVars, channelSupported>>
    /\ UNCHANGED <<retries, failedLogins>>
    /\ UNCHANGED <<listening, faults, account, sessions, rowCount, activity, auth,
                   currentSessionId, ui, op, ret, initPc, refreshing, inbox, storageEvents, logoutSent,
                   logoutDone>>

Next ==
    \E t \in Tabs :
        \/ Mount(t)
        \/ InitGetSession(t)
        \/ InitCreateSession(t)
        \/ onAuthStateChange(t)
        \/ \E passwordOk \in BOOLEAN : Login(t, passwordOk)
        \/ LoginSignIn(t)
        \/ LoginSignOut(t)
        \/ LoginListFactors(t)
        \/ LoginCreateSession(t)
        \/ LoginLogActivity(t)
        \/ \E accepted \in BOOLEAN : Register(t, accepted)
        \/ RegisterSignUp(t)
        \/ RegisterCreateSession(t)
        \/ RegisterLogActivity(t)
        \/ \E codeOk \in BOOLEAN : handleVerify(t, codeOk)
        \/ verifyChallenge(t)
        \/ \E length \in BackupCodeLengths : handleBackupCodeSubmit(t, length)
        \/ handleMFABack(t)
        \/ BackSignOut(t)
        \/ CompleteGetSession(t)
        \/ CompleteAAL(t)
        \/ CompleteCreateSession(t)
        \/ CompleteLogActivity(t)
        \/ Logout(t)
        \/ LogoutSignOut(t)
        \/ DeleteUserAccount(t)
        \/ DeleteLogActivity(t)
        \/ DeleteDeleteSession(t)
        \/ DeleteSignOut(t)
        \/ signOutAllOtherSessions(t)
        \/ OthersDeleteSessions(t)
        \/ OthersLogActivity(t)
        \/ handleMessage(t)
        \/ refreshSession(t)
        \/ GuardGetSession(t)
        \/ GuardListFactors(t)
        \/ GuardAAL(t)
        \/ MfaPageGetSession(t)
        \/ MfaPageListFactors(t)

\* a single tab
Spec == Init /\ [][Next]_vars

\* two tabs, one of them operated
SpecTabs == InitTabs /\ [][Next]_vars

\* a single tab whose user may type a wrong password MaxRetries times more
InitRetry == Start({"A"}) /\ retries = MaxRetries /\ channelSupported = TRUE

SpecRetry == InitRetry /\ [][Next]_vars

\* the limiter alone, called in any order while time passes; no tab is open
InitLimiter ==
    /\ Start({})
    /\ account = [hasFactor |-> FALSE, confirmed |-> TRUE]
    /\ provSession = NoSession
    /\ retries = 0
    /\ channelSupported = TRUE

SpecLimiter == InitLimiter /\ [][NextLimiter]_vars

\* a single tab whose store may also refresh the token or update the user
NextStore == Next \/ \E t \in Tabs, type \in StoreEvents : StoreNotifies(t, type)

SpecStore == Init /\ [][NextStore]_vars

\* two tabs, one of them operated, in a browser with or without BroadcastChannel
InitFallback == Start(Tabs) /\ retries = 0 /\ channelSupported \in BOOLEAN

NextFallback == Next \/ \E t \in Tabs : handleStorageChange(t)

SpecFallback == InitFallback /\ [][NextFallback]_vars

\* a createSession or logActivity request of login, completeMFALogin or
\* register is answered
BookkeepingAnswered ==
    \E t \in Tabs :
        \/ LoginCreateSession(t) \/ LoginLogActivity(t)
        \/ CompleteCreateSession(t) \/ CompleteLogActivity(t)
        \/ RegisterCreateSession(t) \/ RegisterLogActivity(t)

\* a single tab in which every handler that can run does run, except that
\* the tables may leave a createSession or logActivity request unanswered
SpecHang == Init /\ [][Next]_vars /\ WF_vars(Next /\ ~BookkeepingAnswered)

\* ============================================================== claims
\* login has been called with the right password for an account with a
\* confirmed email and a verified factor, and either is still in flight or
\* has returned needsMFA with no MFA step started since
MfaLoginPending(t) ==
    \/ ret[t] = "login:needsMFA"
    \/ /\ op[t].pc \in {"login_signIn", "login_listFactors"}
       /\ op[t].arg /\ account.confirmed /\ account.hasFactor

\* C1: for an account with a confirmed email and a verified TOTP factor,
\* from the login call with the right password until an MFA step is
\* started, no step makes isAuthenticated true (the tab's initial session
\* lookup having finished before), the delivery of the SIGNED_IN event of
\* that sign-in included.
C1_NoAuthBeforeMfaCompletes ==
    [][\A t \in Tabs :
          (/\ MfaLoginPending(t) /\ MfaLoginPending(t)'
           /\ initPc[t] = "done"
           /\ ~auth[t].isAuthenticated) =>
                ~auth'[t].isAuthenticated]_vars

\* C2: ProtectedRoute shows its children only to a non-null user whose
\* account has no verified factor or whose store session is at aal2, and
\* never while a check of the current user value is due or in flight.
C2_GuardAdmitsOnlyVerified ==
    \A t \in Tabs :
        ProtectedShown(t) =>
            /\ auth[t].user # NullUser
            /\ ~account.hasFactor \/ provSession.aal = "aal2"
            /\ ui[t].guard.pc = "none" /\ ~ui[t].guard.dirty

\* C3: a completeMFALogin call that finds no store session, or an
\* assurance level other than aal2 (a failed level query included), ends
\* rejected in that step, whether or not mfa.verify had succeeded, and the
\* step changes no AuthState, no sessions row, no activity row, no
\* currentSessionId and sends no message.
C3_RejectsBelowAal2 ==
    [][\A t \in Tabs :
          LET noSession == op[t].pc = "mfa_getSession" /\ provSession = NoSession
              lowLevel == /\ op[t].pc = "mfa_aal"
                          /\ provSession.aal # "aal2" \/ faults' # faults
          IN (op'[t].pc # op[t].pc /\ (noSession \/ lowLevel)) =>
                /\ op'[t].pc = "idle" /\ ret'[t] = "mfa:rejected"
                /\ auth' = auth /\ currentSessionId' = currentSessionId
                /\ sessions' = sessions /\ rowCount' = rowCount
                /\ activity' = activity /\ inbox' = inbox]_vars

\* a backup code of accepted length was submitted with the store session
\* still at aal1, and completeMFALogin rejected
C3_Witness ==
    \E t \in Tabs :
        /\ ret[t] = "mfa:rejected" /\ provSession.aal = "aal1"
        /\ opsUsed = 1 /\ faults = 0

\* C4: when the initial getSession answers with an aal1 session of an
\* account that has a verified factor, the tab commits no user and
\* isAuthenticated stays false.
C4_StoredAal1NotCommitted ==
    [][\A t \in Tabs :
          (/\ initPc[t] = "getSession" /\ initPc'[t] # "getSession"
           /\ provSession.aal = "aal1" /\ account.hasFactor
           /\ auth[t].user = NullUser) =>
                auth'[t].user = NullUser /\ ~auth'[t].isAuthenticated]_vars

\* C5: a tab loaded on the protected path, with a stored aal1 session of an
\* account that has a verified factor, is not sent to /login by its first
\* render and does not show the protected page.
C5_ReloadNotSentToLogin ==
    [][\A t \in Tabs :
          (/\ initPc[t] = "mount" /\ initPc'[t] # "mount"
           /\ ui[t].path = "/dashboard"
           /\ provSession.aal = "aal1" /\ account.hasFactor) =>
                /\ ui'[t].path # "/login"
                /\ \A i \in 1..Len(ui'[t].navs) : ui'[t].navs[i] # "/login"
                /\ GuardView(auth'[t], ui'[t].guard) # "children"]_vars

\* C6: when logout() ends, the tab's user is null and isAuthenticated is
\* false, whether signOut succeeded or failed; a failed signOut makes
\* logout() reject.
C6_LogoutAlwaysClears ==
    [][\A t \in Tabs :
          (op[t].pc = "logout_signOut" /\ op'[t].pc = "idle") =>
                /\ auth'[t].user = NullUser /\ ~auth'[t].isAuthenticated
                /\ faults' # faults => ret'[t] = "logout:rejected"]_vars

\* the step in which tab t's listener takes a message of this type
Receives(t, type) ==
    /\ inbox[t] # <<>> /\ Head(inbox[t]) = type
    /\ inbox'[t] = Tail(inbox[t])

\* C7: the step that hands a LOGOUT message to a tab leaves its user,
\* session and currentSessionId null and the tab on /login, and sends no
\* message; and at all times as many LOGOUT messages have been sent as
\* logouts and account deletions have succeeded.
C7_LogoutNoEcho ==
    /\ [](logoutSent = logoutDone)
    /\ [][\A t \in Tabs :
             Receives(t, "LOGOUT") =>
                /\ auth'[t].user = NullUser /\ auth'[t].session = NoSession
                /\ ~auth'[t].isAuthenticated
                /\ currentSessionId'[t] = 0
                /\ ui'[t].path = "/login"
                /\ logoutSent' = logoutSent
                /\ \A x \in Tabs \ {t} : inbox'[x] = inbox[x]]_vars

\* the second tab had found the stored session and recorded its sessions
\* row (both tabs did, nothing failed), and the one LOGOUT of the run has
\* reset it
C7_Witness ==
    \E t \in Tabs \ Actors :
        /\ logoutSent = 1 /\ logoutDone = 1 /\ faults = 0 /\ rowCount = 2
        /\ initPc[t] = "done" /\ inbox[t] = <<>>
        /\ currentSessionId[t] = 0
        /\ auth[t].user = NullUser /\ ui[t].path = "/login"

\* C8: the step in which logout() succeeds in a tab sends one LOGOUT, which
\* every other mounted tab gets once; the step that hands it to such a tab
\* leaves that tab with user null and on /login.
C8_LogoutReachesTabs ==
    [][/\ \A a \in Tabs :
             (op[a].pc = "logout_signOut" /\ ret'[a] = "logout:ok") =>
                /\ logoutSent' = logoutSent + 1
                /\ \A b \in listening \ {a} :
                      initPc[b] # "mount" => inbox'[b] = Append(inbox[b], "LOGOUT")
       /\ \A b \in Tabs :
             Receives(b, "LOGOUT") =>
                /\ auth'[b].user = NullUser
                /\ ui'[b].path = "/login" /\ ui'[b].navs # <<>>
                /\ ui'[b].navs[Len(ui'[b].navs)] = "/login"]_vars

\* logout() has succeeded in the operated tab, and the other tab, which
\* showed the dashboard of the stored session, has taken the LOGOUT
C8_Witness ==
    \E b \in Tabs \ Actors :
        /\ \E a \in Actors : ret[a] = "logout:ok"
        /\ faults = 0 /\ rowCount = 2 /\ currentSessionId[b] = 0
        /\ initPc[b] = "done" /\ inbox[b] = <<>>
        /\ ~auth[b].isAuthenticated
        /\ ui[b].path = "/login" /\ ui[b].navs = <<"/login">>

C10_AuthenticatedIffUser ==
    \A t \in Tabs : auth[t].isAuthenticated <=> auth[t].user # NullUser

\* a login without MFA has committed its user
C10_Witness ==
    \E t \in Tabs : ret[t] = "login:ok" /\ auth[t].isAuthenticated /\ auth[t].user # NullUser

\* ------------------------------------------------- rate limiter claims
\* C11: for every identifier, a check made now answers "not locked" while
\* fewer than maxAttempts failures have been recorded in a row, "locked"
\* from the failure that completes them until lockoutDuration has passed
\* since that failure, further failures recorded meanwhile included, and
\* "not locked" at the first check after that.
C11_LockedFifteenMinutes ==
    \A id \in Identifiers :
        LET locked == isLockedValue(attempts, id, now)
            s == streak[id]
        IN /\ s.length < maxAttempts => ~locked
           /\ (s.lockedAt # Null /\ ~Elapsed(s, now)) => locked
           /\ Elapsed(s, now) => ~locked

\* C12: when the latest call on the limiter is recordAttempt(id, true),
\* whatever was recorded for id before, getAttemptCount(id) is 0,
\* getRemainingAttempts(id) is 5, and, as long as no other call follows,
\* isLocked(id) is false and getRemainingTime(id) is 0.
C12_SuccessResets ==
    (answer.call = "recordAttempt" /\ answer.flag) =>
        /\ getAttemptCountValue(attempts, answer.id) = 0
        /\ getRemainingAttemptsValue(attempts, answer.id) = 5
        /\ ~isLockedValue(attempts, answer.id, now)
        /\ getRemainingTimeValue(attempts, answer.id, now) = 0

\* a success was recorded for an identifier that was locked out, and time
\* has passed since
C12_Witness ==
    /\ answer.call = "recordAttempt" /\ answer.flag
    /\ answer.number >= maxAttempts
    /\ attempts[answer.id] = NoRecord
    /\ ticks > 0

\* C14: whenever isLocked(id) answers true, getRemainingTime(id) at the same
\* instant is a number of seconds r with 0 < r <= 900; for an identifier
\* without lockout it is 0.
C14_RemainingTimeWhileLocked ==
    \A id \in Identifiers :
        LET r == getRemainingTimeValue(attempts, id, now)
        IN /\ isLockedValue(attempts, id, now) => (0 < r /\ r <= 900)
           /\ attempts[id].lockedUntil = Null => r = 0

\* ---------------------------------------------------------- more claims
\* C13: once signInWithPassword has rejected five login() calls in a row
\* (no time passes in between, so the 15 minutes have not elapsed), no
\* further login() call issues a signInWithPassword call: login rejects it
\* locally.
C13_SixthLoginRejectedLocally ==
    [][failedLogins >= 5 =>
          \A t \in Tabs : ~(op[t].pc = "idle" /\ op'[t].pc = "login_signIn")]_vars

\* the step in which tab t calls signOutAllOtherSessions()
CallsOthers(t) ==
    /\ op[t].pc = "idle" /\ opsUsed' = opsUsed + 1
    /\ op'[t].pc = "others_delete" \/ ret'[t] = "others:rejected"

\* C15: a signOutAllOtherSessions() call made while the tab's user or its
\* currentSessionId is null rejects in that step, with no delete issued, no
\* sessions row removed and no activity row added; a call made with both
\* known removes, when its delete is answered, only rows of that user whose
\* id differs from that currentSessionId.
C15_OthersNeedsSessionId ==
    [][\A t \in Tabs :
          /\ (CallsOthers(t) /\ (auth[t].user = NullUser \/ currentSessionId[t] = 0)) =>
                /\ ret'[t] = "others:rejected" /\ op'[t].pc = "idle"
                /\ sessions' = sessions /\ activity' = activity
          /\ (op[t].pc = "others_delete" /\ op'[t].pc # "others_delete") =>
                /\ sessions' \subseteq sessions
                /\ \A row \in sessions \ sessions' :
                      row.user_id = UserId /\ row.id # op[t].sid]_vars

\* the call was rejected for a tab that had committed the stored session's
\* user and whose sessions row had not been created
C15_Witness ==
    \E t \in Tabs :
        /\ ret[t] = "others:rejected"
        /\ auth[t].user # NullUser /\ currentSessionId[t] = 0
        /\ sessions = {OtherUsersRow} /\ activity = <<>>

\* a call made with both known has removed another row of the user (the
\* row of an earlier login) and kept its own and the other user's
C15_WitnessDeleted ==
    \E t \in Tabs :
        /\ ret[t] = "others:ok" /\ currentSessionId[t] # 0
        /\ rowCount = 2
        /\ sessions = {OtherUsersRow, SessionRow(currentSessionId[t], UserId)}

\* login is on its unconfirmed-email path: the sign-in of an account whose
\* email is not confirmed is being answered, or its signOut is awaited
UnconfirmedLoginStep(t) ==
    \/ op[t].pc = "login_signIn" /\ op[t].arg /\ ~account.confirmed
    \/ op[t].pc = "login_signOut"

\* C16: a login() whose sign-in succeeds for an unconfirmed email awaits
\* signOut before it returns needsVerification; its own steps commit no
\* user and no session, create no sessions row and send no message; and
\* once it has returned and the tab has handled every auth-state event,
\* the tab's user is null and the store holds no session.
C16_UnconfirmedLeavesNoSession ==
    /\ [][\A t \in Tabs :
             (UnconfirmedLoginStep(t) /\ op'[t] # op[t]) =>
                /\ auth'[t].user = auth[t].user /\ auth'[t].session = auth[t].session
                /\ sessions' = sessions /\ rowCount' = rowCount /\ inbox' = inbox
                /\ ret'[t] = "login:needsVerification" => op[t].pc = "login_signOut"]_vars
    /\ [](\A t \in Tabs :
             (ret[t] = "login:needsVerification" /\ evq[t] = <<>> /\ initPc[t] = "done") =>
                auth[t].user = NullUser /\ provSession = NoSession)

\* C17: when logout() succeeds in a tab whose currentSessionId is not null,
\* the sessions row with that id is gone from the table by the time
\* logout() returns.
C17_LogoutDeletesSessionRow ==
    [][\A t \in Tabs :
          (/\ op[t].pc = "logout_signOut" /\ ret'[t] = "logout:ok"
           /\ currentSessionId[t] # 0) =>
                \A row \in sessions' : row.id # currentSessionId[t]]_vars

\* the store call of t's operation is being answered with an error, and the
\* message of that error
FailedCall(t) ==
    CASE op[t].pc = "login_signIn" /\ ~op[t].arg -> "Invalid login credentials"
      [] op[t].pc = "register_signUp" /\ ~op[t].arg -> "User already registered"
      [] op[t].pc = "logout_signOut" /\ faults' # faults -> "signOut failed"
      [] OTHER -> "null"

C18_WitnessRegister ==
    \E t \in Tabs :
        /\ ret[t] = "register:rejected" /\ auth[t].error = "User already registered"
        /\ auth[t].user = NullUser /\ ~auth[t].isLoading

\* C19: inside login(), completeMFALogin() and register(), a createSession
\* that fails changes neither the committed user nor currentSessionId nor
\* the table, and the operation goes on to logActivity; when logActivity
\* answers, failed or not, the operation returns successfully with the
\* user unchanged.
C19_BookkeepingFailuresSwallowed ==
    [][\A t \in Tabs :
          /\ (/\ op[t].pc \in {"login_createSession", "mfa_createSession",
                               "register_createSession"}
              /\ op'[t] # op[t] /\ faults' # faults) =>
                /\ op'[t].pc \in {"login_logActivity", "mfa_logActivity",
                                  "register_logActivity"}
                /\ auth'[t] = auth[t] /\ ret'[t] = ret[t]
                /\ currentSessionId'[t] = currentSessionId[t]
                /\ sessions' = sessions
          /\ (/\ op[t].pc \in {"login_logActivity", "mfa_logActivity",
                               "register_logActivity"}
              /\ op'[t] # op[t]) =>
                /\ op'[t].pc = "idle"
                /\ ret'[t] \in {"login:ok", "mfa:ok", "register:ok"}
                /\ auth'[t].user = auth[t].user /\ auth'[t].session = auth[t].session
                /\ auth'[t].error = auth[t].error]_vars

\* login() returned successfully although its createSession had failed: the
\* user is committed, no row exists, currentSessionId is null
C19_Witness ==
    \E t \in Tabs :
        /\ ret[t] = "login:ok" /\ faults = 1
        /\ rowCount = 0 /\ currentSessionId[t] = 0
        /\ auth[t].user # NullUser /\ Len(activity) = 1

\* nothing of the tab is pending: the mount effects have finished, no
\* operation is suspended, and every event, message and refreshSession call
\* has been handled
Settled(t) ==
    /\ initPc[t] = "done" /\ op[t].pc = "idle"
    /\ evq[t] = <<>> /\ inbox[t] = <<>> /\ refreshing[t] = 0

\* C20: last-write coherence.  However the state updates of login,
\* completeMFALogin, logout and refreshSession interleave with the store's
\* events, once every pending update of a tab has been applied its session is
\* the store's current session, not an earlier one, and its user is non-null
\* exactly when the store holds a session.
C20_LastWriteCoherence ==
    \A t \in listening :
        Settled(t) =>
            /\ auth[t].session = provSession
            /\ auth[t].user # NullUser <=> provSession # NoSession

\* the tab has made the transition to ANONYMOUS: no user, no session, no
\* sessions row of its own
Anonymous(t) ==
    /\ auth[t].user = NullUser /\ auth[t].session = NoSession
    /\ ~auth[t].isAuthenticated /\ currentSessionId[t] = 0

\* this step is handleMessage of tab t taking a LOGOUT message
TakesLogoutMessage(t) ==
    /\ inbox[t] # <<>> /\ Head(inbox[t]) = "LOGOUT"
    /\ inbox'[t] = Tail(inbox[t])

\* this step is the onAuthStateChange callback of tab t taking SIGNED_OUT
TakesSignedOut(t) ==
    /\ evq[t] # <<>> /\ Head(evq[t]).type = "SIGNED_OUT"
    /\ evq'[t] = Tail(evq[t])

\* C21: a LOGOUT message or a SIGNED_OUT event handled in a tab that is
\* already ANONYMOUS changes none of user, session, isAuthenticated, error and
\* currentSessionId and makes no operation return an error; and the updates
\* of a LOGOUT message applied twice give the state they give applied once.
C21_LogoutWhenAnonymousIsNoOp ==
    /\ [][\A t \in Tabs :
            Anonymous(t) /\ (TakesLogoutMessage(t) \/ TakesSignedOut(t)) =>
                /\ auth'[t].user = auth[t].user
                /\ auth'[t].session = auth[t].session
                /\ auth'[t].isAuthenticated = auth[t].isAuthenticated
                /\ auth'[t].error = auth[t].error
                /\ currentSessionId'[t] = currentSessionId[t]
                /\ ret'[t] = ret[t]]_vars
    /\ [](\A t \in Tabs :
            LET once == Dispatch(auth[t], MessageActions("LOGOUT"))
            IN Dispatch(once, MessageActions("LOGOUT")) = once)

\* logout has ended, and the tab has since handled its SIGNED_OUT event and
\* the LOGOUT message, both of which found it ANONYMOUS
C21_Witness ==
    /\ ret["A"] = "logout:ok" /\ logoutSent = 1
    /\ Anonymous("A")
    /\ evq["A"] = <<>> /\ inbox["A"] = <<>>

\* this step is handleStorageChange of tab t taking the storage event of a
\* message of the given type written under the auth_sync key
TakesStored(t, type) ==
    /\ storageEvents[t] # <<>>
    /\ Head(storageEvents[t]) = [key |-> AuthSyncKey, newValue |-> type]
    /\ storageEvents'[t] = Tail(storageEvents[t])

\* C22: where BroadcastChannel is unavailable broadcast writes the message
\* under the auth_sync key and removes it at once, and a tab that takes the
\* storage event of a LOGOUT handles it as it handles the message from the
\* channel: it is ANONYMOUS and at /login afterwards.
C22_FallbackDeliversLogout ==
    [][\A t \in Tabs :
          TakesStored(t, "LOGOUT") =>
              /\ auth'[t].user = NullUser /\ auth'[t].session = NoSession
              /\ ~auth'[t].isAuthenticated
              /\ ui'[t].path = "/login"]_vars

\* the entries of the given event in the activity log
Entries(log, event) == {i \in 1..Len(log) : log[i].event = event}

\* C23: for an account with a verified TOTP factor, no step taken while the
\* store's session is only primary-factor-assured (aal1) adds a row to the
\* sessions table or a login entry to the activity log.
C23_NoRecordsWhileMfaPending ==
    [][account.hasFactor /\ provSession.aal = "aal1" /\ provSession'.aal = "aal1" =>
          /\ sessions' \subseteq sessions
          /\ Entries(activity', "login") = Entries(activity, "login")]_vars

\* login, completeMFALogin or register of tab t awaits createSession or
\* logActivity
AwaitsBookkeeping(t) ==
    op[t].pc \in {"login_createSession", "login_logActivity",
                  "mfa_createSession", "mfa_logActivity",
                  "register_createSession", "register_logActivity"}

\* C24: bookkeeping never blocks the operation.  Even when the tables never
\* answer, a login, completeMFALogin or register that awaits createSession or
\* logActivity returns to its caller.
C24_BookkeepingNeverBlocks ==
    \A t \in Tabs : AwaitsBookkeeping(t) ~> op[t].pc = "idle"

\* a credential-store call of the initial session lookup, login, register or
\* logout of tab t is outstanding
StoreCallOutstanding(t) ==
    \/ initPc[t] = "getSession"
    \/ op[t].pc \in {"login_signIn", "login_signOut", "login_listFactors",
                     "register_signUp", "logout_signOut"}

\* C25: while a credential-store call of the initial session lookup, login,
\* register or logout is outstanding, isLoading is true (so that it stays
\* true for as long as the call does not answer).
C25_LoadingWhileOutstanding ==
    \A t \in Tabs : StoreCallOutstanding(t) => auth[t].isLoading

\* C26: a tab's listener never handles a message that the tab itself has
\* broadcast.  With a single tab open every message is the tab's own, so its
\* handleMessage never takes a LOGOUT or a LOGIN.
C26_OwnMessagesNotHandled ==
    [][\A t \in Tabs :
          listening = {t} => ~Receives(t, "LOGOUT") /\ ~Receives(t, "LOGIN")]_vars

\* C27: in every reachable state a tab that knows a sessions row of its own
\* (currentSessionId is not null) has a user, so that the heartbeat on
\* last_active never runs in an anonymous tab.
C27_SessionIdImpliesUser ==
    \A t \in Tabs : currentSessionId[t] # 0 => auth[t].user # NullUser

\* this step is the failed answer to the mfa.listFactors call of tab t's login
LoginFactorsFailed(t) ==
    /\ op[t].pc = "login_listFactors" /\ op'[t] # op[t]
    /\ faults' # faults

\* this step is the failed answer to the listFactors or assurance-level call
\* of tab t's ProtectedRoute, which settles its check
GuardCheckFailed(t) ==
    /\ ui[t].path = "/dashboard" /\ ui[t].guard.pc \in {"listFactors", "aal"}
    /\ op'[t] = op[t] /\ faults' # faults
    /\ ui'[t].path = "/dashboard" /\ ui'[t].guard.pc = "none"

\* C28: MFA checks fail closed, shown on an account that has a verified
\* factor.  When mfa.listFactors fails inside login, login does not go on to
\* complete the login without a second factor; when listFactors or the
\* assurance-level query fails inside ProtectedRoute, the route does not
\* render its children.
C28_MfaChecksFailClosed ==
    [][\A t \in Tabs :
          /\ account.hasFactor /\ LoginFactorsFailed(t) =>
                op'[t].pc # "login_createSession" /\ ret'[t] # "login:ok"
          /\ account.hasFactor /\ GuardCheckFailed(t) =>
                GuardView(auth'[t], ui'[t].guard) # "children"]_vars

\* C29: when login returns with the user committed, or completeMFALogin
\* returns with success, the error of the tab's AuthState is null.
C29_NoErrorWhenAuthenticated ==
    [][\A t \in Tabs :
          ret'[t] # ret[t] /\ ret'[t] \in {"login:ok", "mfa:ok"} =>
              auth'[t].error = "null"]_vars

\* C30: a check made now answers "locked" for an identifier only if at
\* least maxAttempts failures have been recorded for it since the later of
\* its last success and the expiry of its previous lockout, whether or not
\* isLocked was called between that expiry and the next failure.
C30_FreshAllowanceAfterExpiry ==
    \A id \in Identifiers :
        isLockedValue(attempts, id, now) => allowance[id] >= maxAttempts

====
